---- MODULE Spec2Model ----
(***************************************************************************)
(* Todo API (backend/main.py, backend/schemas.py, backend/models.py).      *)
(*                                                                         *)
(* The store is the single table "task".  A handler is a sequence of       *)
(* database steps (SELECT, commit, refresh); requests are served by a      *)
(* thread pool, so the steps of one request interleave with other          *)
(* requests.  A request either runs whole, or is held between two of its   *)
(* steps while other requests run.  A row is a record with the columns of  *)
(* models.Task.  Optional values (Optional[...] in schemas.py, nullable    *)
(* columns in models.py) are sequences of length 0 (None) or 1 (the        *)
(* value).  A title is a sequence of characters, each its Unicode code     *)
(* point, so that str.strip() is computed and not assumed.                 *)
(***************************************************************************)
EXTENDS Integers, Sequences, FiniteSets

VARIABLES
    tasks,   \* the rows of table "task"
    now,     \* the database clock, read by func.now()
    mix,     \* which request bodies the clients of this run send
    held     \* the requests stopped between two of their database steps

vars == <<tasks, now, mix, held>>

(* ------------------------------ bounds --------------------------------- *)

\* Largest number of rows the table holds at once.
MaxTasks == 2
\* Last value of the database clock (CURRENT_TIMESTAMP); the first is 1.
MaxTime == 2
\* Largest number of requests held between two of their steps at once.
MaxHeld == 1
\* Largest id the store hands out: no task is created once the next id
\* would be larger.
MaxId == 3

(* ------------------------------ values --------------------------------- *)

None == <<>>
Some(v) == <<v>>

\* The characters c with c.isspace(), which str.strip() removes: \t \n \x0b
\* \x0c \r, \x1c .. \x1f, space, \x85, \xa0, U+1680, U+2000 .. U+200A,
\* U+2028, U+2029, U+202F, U+205F, U+3000
Whitespace ==
    (9 .. 13) \cup (28 .. 32) \cup {133, 160, 5760} \cup (8192 .. 8202)
        \cup {8232, 8233, 8239, 8287, 12288}

\* str.strip(): drop leading whitespace, then trailing whitespace
RECURSIVE lstrip(_)
lstrip(s) ==
    IF s = <<>> THEN <<>>
    ELSE IF Head(s) \in Whitespace THEN lstrip(Tail(s)) ELSE s

RECURSIVE rstrip(_)
rstrip(s) ==
    IF s = <<>> THEN <<>>
    ELSE IF s[Len(s)] \in Whitespace THEN rstrip(SubSeq(s, 1, Len(s) - 1)) ELSE s

strip(s) == rstrip(lstrip(s))

\* Literal["Low", "Moderate", "High"] / PriorityEnum
PriorityEnum == {"Low", "Moderate", "High"}
\* Literal["Not Started", "In Progress", "Completed"] / StatusEnum
StatusEnum == {"Not Started", "In Progress", "Completed"}

(* --------------------------- request bodies ---------------------------- *)

Opt(S) == {None} \cup {Some(v) : v \in S}

\* the title made of every whitespace character once
AllWhitespace ==
    <<9, 10, 11, 12, 13, 28, 29, 30, 31, 32, 133, 160, 5760, 8192, 8193, 8194,
      8195, 8196, 8197, 8198, 8199, 8200, 8201, 8202, 8232, 8233, 8239, 8287,
      12288>>
\* titles sent by clients: "", whitespace only, "a", and "b" between a
\* no-break space and a newline
Titles == {<<>>, AllWhitespace, <<97>>, <<160, 98, 10>>}
\* a whitespace-only and a plain title, for clients that do not edit titles
FewTitles == {AllWhitespace, <<97>>}
Descriptions == {"d"}

\* A run is driven by one of four kinds of client: "titles" edits titles and
\* sends priorities, "completion" completes and reopens tasks, "details"
\* edits descriptions and statuses, "edits" changes title and description
\* of the same task.  Every client also sends whitespace-only titles.
Mixes == {"titles", "completion", "details", "edits"}

\* JSON bodies of POST /api/tasks: title required, the rest may be absent
CreateBodies(m) ==
    CASE m = "titles" ->
           [title : Titles, description : {None},
            priority : Opt({"High"}), status : {None}]
      [] m = "completion" ->
           [title : FewTitles, description : {None},
            priority : {None}, status : Opt({"In Progress"})]
      [] m = "details" ->
           [title : FewTitles, description : Opt(Descriptions),
            priority : Opt({"Low"}), status : {None}]
      [] m = "edits" ->
           [title : FewTitles, description : {None},
            priority : {None}, status : {None}]

\* schemas.TaskCreate: absent priority / status take their defaults
TaskCreate(body) ==
    [title |-> body.title,
     description |-> body.description,
     priority |-> IF body.priority = None THEN "Moderate" ELSE body.priority[1],
     status |-> IF body.status = None THEN "Not Started" ELSE body.status[1]]

\* schemas.TaskUpdate: the JSON bodies of PUT, every field Optional (None)
TaskUpdate(m) ==
    CASE m = "titles" ->
           [title : Opt(Titles), description : {None},
            completed : Opt({FALSE}), priority : Opt({"High"}),
            status : {None}]
      [] m = "completion" ->
           [title : Opt({AllWhitespace}), description : {None},
            completed : Opt(BOOLEAN), priority : {None},
            status : Opt({"Completed"})]
      [] m = "details" ->
           [title : Opt(FewTitles), description : Opt(Descriptions),
            completed : {None}, priority : {None},
            status : Opt(StatusEnum)]
      [] m = "edits" ->
           [title : Opt({<<98>>}), description : Opt(Descriptions),
            completed : {None}, priority : {None},
            status : {None}]

(* ------------------------------ the table ------------------------------ *)

Ids(db) == {r.id : r \in db}

\* db.query(Task).filter(Task.id == task_id).first()
first(db, task_id) ==
    IF \E r \in db : r.id = task_id
    THEN Some(CHOOSE r \in db : r.id = task_id)
    ELSE None

RECURSIVE SetMax(_)
SetMax(S) ==
    IF S = {} THEN 0
    ELSE LET x == CHOOSE x \in S : TRUE
             m == SetMax(S \ {x})
         IN IF x > m THEN x ELSE m

\* Integer primary key: the store assigns the largest id in the table + 1
NextId(db) == SetMax(Ids(db)) + 1

\* mutant of InsertRow: the id is the number of rows + 1
InsertRow_CountId(db, t, title, description) ==
    [id |-> Cardinality(db) + 1,
     title |-> title,
     description |-> description,
     completed |-> FALSE,
     priority |-> "Moderate",
     status |-> "Not Started",
     created_at |-> t,
     updated_at |-> t]

\* models.Task column defaults applied by INSERT at clock value t
InsertRow(db, t, title, description) ==
    [id |-> NextId(db),
     title |-> title,
     description |-> description,
     completed |-> FALSE,
     priority |-> "Moderate",
     status |-> "Not Started",
     created_at |-> t,
     updated_at |-> t]

(* ------------------------------ responses ------------------------------ *)

Ok(body) == [status |-> 200, detail |-> "", body |-> body]
HTTPException(code, detail) == [status |-> code, detail |-> detail, body |-> <<>>]

(* ------------------------------ handlers ------------------------------- *)

\* db.refresh(db_task): the row is read again by primary key; a row that is
\* gone raises InvalidRequestError, which the server answers with 500
refresh(db, task_id) ==
    LET found == first(db, task_id)
    IN IF found = None
       THEN HTTPException(500, "Internal Server Error")
       ELSE Ok(found)

\* POST /api/tasks, run without another request in between
create_task(db, t, task) ==
    IF strip(task.title) = <<>>
    THEN [db |-> db, resp |-> HTTPException(400, "Title cannot be empty")]
    ELSE LET db_task == InsertRow(db, t, task.title, task.description)
             committed == db \cup {db_task}
         IN [db |-> committed, resp |-> refresh(committed, db_task.id)]

\* ORDER BY created_at DESC, id DESC: does row a come before row b?
Before(a, b) ==
    \/ a.created_at > b.created_at
    \/ a.created_at = b.created_at /\ a.id > b.id

\* .order_by(desc(Task.created_at), desc(Task.id)) over a set of rows
RECURSIVE order_by(_)
order_by(rows) ==
    IF rows = {} THEN <<>>
    ELSE LET top == CHOOSE a \in rows : \A b \in rows \ {a} : Before(a, b)
         IN <<top>> \o order_by(rows \ {top})

\* .offset(skip).limit(limit)
offset_limit(s, skip, limit) ==
    SubSeq(s, skip + 1, IF skip + limit < Len(s) THEN skip + limit ELSE Len(s))

\* Query(0, ge=0) and Query(5, ge=1, le=100)
ValidQuery(skip, limit) == skip >= 0 /\ limit >= 1 /\ limit <= 100

\* mutant of get_tasks: the completed argument, when given, replaces the fixed
\* completed == False filter
get_tasks_HonoursFilter(db, skip, limit, completed) ==
    IF ~ValidQuery(skip, limit)
    THEN HTTPException(422, "validation error")
    ELSE LET q == IF completed # None
                  THEN {r \in db : r.completed = completed[1]}
                  ELSE {r \in db : r.completed = FALSE}
         IN Ok(offset_limit(order_by(q), skip, limit))

\* GET /api/tasks ; completed is None, Some(TRUE) or Some(FALSE)
get_tasks(db, skip, limit, completed) ==
    IF ~ValidQuery(skip, limit)
    THEN HTTPException(422, "validation error")
    ELSE LET q1 == IF completed # None
                   THEN {r \in db : r.completed = completed[1]}
                   ELSE db
             q2 == {r \in q1 : r.completed = FALSE}
         IN Ok(offset_limit(order_by(q2), skip, limit))

\* GET /api/tasks/{task_id}
get_task(db, task_id) ==
    LET task == first(db, task_id)
    IN IF task = None
       THEN HTTPException(404, "Task not found")
       ELSE Ok(task)

\* the request body {} of PUT: TaskUpdate with every field at its default
NoFields ==
    [title |-> None, description |-> None, completed |-> None,
     priority |-> None, status |-> None]

\* the attributes of the loaded Task object that update_task may assign,
\* with the values the SELECT returned
Loaded(r) ==
    [title |-> r.title, description |-> r.description, completed |-> r.completed]

\* mutant of assign: a full replace, an absent description becomes NULL
assign_Replace(db_task, task_update) ==
    LET r1 == IF task_update.title # None
              THEN [db_task EXCEPT !.title = task_update.title[1]]
              ELSE db_task
        r2 == [r1 EXCEPT !.description = task_update.description]
        r3 == IF task_update.completed # None
              THEN [r2 EXCEPT !.completed = task_update.completed[1]]
              ELSE r2
    IN r3

\* the assignments of update_task to the loaded object
assign(db_task, task_update) ==
    LET r1 == IF task_update.title # None
              THEN [db_task EXCEPT !.title = task_update.title[1]]
              ELSE db_task
        r2 == IF task_update.description # None
              THEN [r1 EXCEPT !.description = task_update.description]
              ELSE r1
        r3 == IF task_update.completed # None
              THEN [r2 EXCEPT !.completed = task_update.completed[1]]
              ELSE r2
    IN r3

\* mutant of commit: updated_at has no onupdate
commit_NoOnupdate(db, t, task_id, loaded, db_task) ==
    IF db_task = loaded
    THEN [db |-> db, ok |-> TRUE]
    ELSE LET found == first(db, task_id)
         IN IF found = None
            THEN [db |-> db, ok |-> FALSE]
            ELSE LET row == [found[1] EXCEPT
                               !.title = IF db_task.title # loaded.title
                                         THEN db_task.title ELSE @,
                               !.description =
                                   IF db_task.description # loaded.description
                                   THEN db_task.description ELSE @,
                               !.completed =
                                   IF db_task.completed # loaded.completed
                                   THEN db_task.completed ELSE @]
                 IN [db |-> (db \ {found[1]}) \cup {row}, ok |-> TRUE]

\* db.commit() of update_task: the flush compares the object with the values
\* it was loaded with.  No attribute differs: no statement is issued.
\* Otherwise UPDATE task SET <the attributes that differ>, updated_at = now
\* WHERE id = task_id; onupdate=func.now() is part of that statement, and a
\* statement that matches no row raises StaleDataError (ok = FALSE).
commit(db, t, task_id, loaded, db_task) ==
    IF db_task = loaded
    THEN [db |-> db, ok |-> TRUE]
    ELSE LET found == first(db, task_id)
         IN IF found = None
            THEN [db |-> db, ok |-> FALSE]
            ELSE LET row == [found[1] EXCEPT
                               !.title = IF db_task.title # loaded.title
                                         THEN db_task.title ELSE @,
                               !.description =
                                   IF db_task.description # loaded.description
                                   THEN db_task.description ELSE @,
                               !.completed =
                                   IF db_task.completed # loaded.completed
                                   THEN db_task.completed ELSE @,
                               !.updated_at = t]
                 IN [db |-> (db \ {found[1]}) \cup {row}, ok |-> TRUE]

\* mutant of update_select: the title is compared with "" without strip()
update_select_NoStrip(db, task_id, task_update) ==
    LET found == first(db, task_id)
    IN IF found = None
       THEN [error |-> Some(HTTPException(404, "Task not found")),
             loaded |-> None]
       ELSE IF task_update.title # None /\ task_update.title[1] = <<>>
       THEN [error |-> Some(HTTPException(400, "Title cannot be empty")),
             loaded |-> None]
       ELSE [error |-> None, loaded |-> Some(Loaded(found[1]))]

\* mutant of update_select: the title is validated before the row is looked up
update_select_ValidatesFirst(db, task_id, task_update) ==
    LET found == first(db, task_id)
    IN IF task_update.title # None /\ strip(task_update.title[1]) = <<>>
       THEN [error |-> Some(HTTPException(400, "Title cannot be empty")),
             loaded |-> None]
       ELSE IF found = None
       THEN [error |-> Some(HTTPException(404, "Task not found")),
             loaded |-> None]
       ELSE [error |-> None, loaded |-> Some(Loaded(found[1]))]

\* update_task up to its commit: the SELECT, the 404, the title check.  No
\* statement is sent between the SELECT and the commit.
update_select(db, task_id, task_update) ==
    LET found == first(db, task_id)
    IN IF found = None
       THEN [error |-> Some(HTTPException(404, "Task not found")),
             loaded |-> None]
       ELSE IF task_update.title # None /\ strip(task_update.title[1]) = <<>>
       THEN [error |-> Some(HTTPException(400, "Title cannot be empty")),
             loaded |-> None]
       ELSE [error |-> None, loaded |-> Some(Loaded(found[1]))]

\* PUT /api/tasks/{task_id}, run without another request in between
update_task(db, t, task_id, task_update) ==
    LET selected == update_select(db, task_id, task_update)
    IN IF selected.error # None
       THEN [db |-> db, resp |-> selected.error[1]]
       ELSE LET loaded == selected.loaded[1]
                done == commit(db, t, task_id, loaded, assign(loaded, task_update))
            IN IF ~done.ok
               THEN [db |-> db, resp |-> HTTPException(500, "Internal Server Error")]
               ELSE [db |-> done.db, resp |-> refresh(done.db, task_id)]

\* the answer of a Delete that went through
Deleted == [status |-> 200, detail |-> "Task deleted successfully", body |-> <<>>]

\* mutant of delete_commit: the delete is never committed
delete_commit_NoCommit(db, task_id) == db

\* db.delete(db_task); db.commit(): DELETE FROM task WHERE id = task_id.  A
\* statement that matches no row is only warned about.
delete_commit(db, task_id) == {r \in db : r.id # task_id}

\* DELETE /api/tasks/{task_id}, run without another request in between
delete_task(db, task_id) ==
    LET found == first(db, task_id)
    IN IF found = None
       THEN [db |-> db, resp |-> HTTPException(404, "Task not found")]
       ELSE [db |-> delete_commit(db, task_id), resp |-> Deleted]

(* ---------------------------- held requests ---------------------------- *)

\* A held request: the handler (op), the step it runs next (pc), the id of
\* its Task object, and for an Update before its commit the values the
\* object was loaded with and the request body.
Pending(op, pc, task_id, loaded, task_update) ==
    [op |-> op, pc |-> pc, id |-> task_id, loaded |-> loaded, u |-> task_update]

\* The next step of the held request p at clock value t: the table it leaves,
\* the response when the handler returns or raises, and what is left to run.
resume(db, t, p) ==
    CASE p.pc = "refresh" ->
           \* create_task and update_task: db.refresh(...) and return
           [db |-> db, resp |-> Some(refresh(db, p.id)), next |-> None]
      [] p.op = "update" /\ p.pc = "commit" ->
           LET done == commit(db, t, p.id, p.loaded[1],
                              assign(p.loaded[1], p.u))
           IN IF ~done.ok
              THEN [db |-> db,
                    resp |-> Some(HTTPException(500, "Internal Server Error")),
                    next |-> None]
              ELSE [db |-> done.db, resp |-> None,
                    next |-> Some(Pending("update", "refresh", p.id, None,
                                          NoFields))]
      [] p.op = "delete" /\ p.pc = "commit" ->
           [db |-> delete_commit(db, p.id), resp |-> Some(Deleted),
            next |-> None]

(* --------------------------- request inputs ---------------------------- *)

\* path parameters: every id the table can hold and one it never holds
TaskIds == 1 .. (MaxId + 1)
\* skip values; -1 is rejected by ge=0, MaxTasks skips every row
Skips == -1 .. MaxTasks
\* limit values: below range, smallest, two, the default, largest, above range
Limits == {0, 1, 2, 5, 100, 101}
\* where held requests are kept
Slots == 1 .. MaxHeld

(* ---------------------------- state machine ---------------------------- *)

Init ==
    /\ tasks = {}
    /\ now = 1
    /\ mix \in Mixes
    /\ held = [s \in Slots |-> None]

\* POST /api/tasks served without interruption
Create ==
    \E body \in CreateBodies(mix) :
        /\ Cardinality(tasks) < MaxTasks
        /\ NextId(tasks) <= MaxId
        /\ tasks' = create_task(tasks, now, TaskCreate(body)).db
        /\ UNCHANGED <<now, mix, held>>

\* POST /api/tasks held after db.commit(), before db.refresh(db_task)
CreateHold ==
    \E body \in CreateBodies(mix), s \in Slots :
        LET res == create_task(tasks, now, TaskCreate(body))
        IN /\ Cardinality(tasks) < MaxTasks
           /\ NextId(tasks) <= MaxId
           /\ held[s] = None
           /\ res.resp.status = 200
           /\ tasks' = res.db
           /\ held' = [held EXCEPT ![s] =
                         Some(Pending("create", "refresh", res.resp.body[1].id,
                                      None, NoFields))]
           /\ UNCHANGED <<now, mix>>

List ==
    \E skip \in Skips, limit \in Limits, completed \in Opt(BOOLEAN) :
        /\ get_tasks(tasks, skip, limit, completed).status \in {200, 422}
        /\ UNCHANGED vars

Get ==
    \E task_id \in TaskIds :
        /\ get_task(tasks, task_id).status \in {200, 404}
        /\ UNCHANGED vars

\* PUT /api/tasks/{task_id} served without interruption
Update ==
    \E task_id \in TaskIds, task_update \in TaskUpdate(mix) :
        /\ tasks' = update_task(tasks, now, task_id, task_update).db
        /\ UNCHANGED <<now, mix, held>>

\* PUT /api/tasks/{task_id} held after its SELECT and checks, before db.commit()
UpdateHold ==
    \E task_id \in TaskIds, task_update \in TaskUpdate(mix), s \in Slots :
        LET selected == update_select(tasks, task_id, task_update)
        IN /\ held[s] = None
           /\ selected.error = None
           /\ held' = [held EXCEPT ![s] =
                         Some(Pending("update", "commit", task_id,
                                      selected.loaded, task_update))]
           /\ UNCHANGED <<tasks, now, mix>>

\* DELETE /api/tasks/{task_id} served without interruption
Delete ==
    \E task_id \in TaskIds :
        /\ tasks' = delete_task(tasks, task_id).db
        /\ UNCHANGED <<now, mix, held>>

\* DELETE /api/tasks/{task_id} held after its SELECT, before db.delete(db_task)
DeleteHold ==
    \E task_id \in TaskIds, s \in Slots :
        /\ held[s] = None
        /\ first(tasks, task_id) # None
        /\ held' = [held EXCEPT ![s] =
                      Some(Pending("delete", "commit", task_id, None, NoFields))]
        /\ UNCHANGED <<tasks, now, mix>>

\* a held request runs its next step; an Update that has committed stays
\* held before its db.refresh(db_task)
Resume ==
    \E s \in Slots :
        /\ held[s] # None
        /\ LET res == resume(tasks, now, held[s][1])
           IN /\ tasks' = res.db
              /\ held' = [held EXCEPT ![s] = res.next]
        /\ UNCHANGED <<now, mix>>

\* the database clock advances between steps
Tick ==
    /\ now < MaxTime
    /\ now' = now + 1
    /\ UNCHANGED <<tasks, mix, held>>

Next ==
    \/ Create \/ CreateHold
    \/ List
    \/ Get
    \/ Update \/ UpdateHold
    \/ Delete \/ DeleteHold
    \/ Resume
    \/ Tick

Spec == Init /\ [][Next]_vars

(* ------------------------- vocabulary of the claims -------------------- *)

Blank(title) == strip(title) = <<>>
Row(db, task_id) == CHOOSE r \in db : r.id = task_id
BodyIds(body) == {body[k].id : k \in DOMAIN body}
Incomplete(db) == {r \in db : r.completed = FALSE}
ValidSkips == {skip \in Skips : skip >= 0}
ValidLimits == {limit \in Limits : limit >= 1 /\ limit <= 100}
NotFound(resp) == resp.status = 404 /\ resp.detail = "Task not found"
EmptyTitle(resp) == resp.status = 400 /\ resp.detail = "Title cannot be empty"

\* the held requests, and those of them that are an Update or a Delete
\* stopped before its commit
Held == {held[s][1] : s \in {s \in Slots : held[s] # None}}
HeldUpdates == {p \in Held : p.op = "update" /\ p.pc = "commit"}
HeldDeletes == {p \in Held : p.op = "delete" /\ p.pc = "commit"}

\* created_at descending, ties broken by id descending
Precedes(a, b) ==
    \/ a.created_at > b.created_at
    \/ a.created_at = b.created_at /\ a.id > b.id

\* position of row r in the sequence of all incomplete rows, newest first
Position(db, r) == Cardinality({q \in Incomplete(db) : Precedes(q, r)}) + 1

\* resp is 200 with the elements skip+1 .. skip+limit of that sequence
IsWindow(resp, db, skip, limit) ==
    LET n == Cardinality(Incomplete(db))
        rest == IF n > skip THEN n - skip ELSE 0
        len == IF limit < rest THEN limit ELSE rest
    IN /\ resp.status = 200
       /\ Len(resp.body) = len
       /\ len <= limit
       /\ \A k \in 1 .. len :
              /\ resp.body[k] \in Incomplete(db)
              /\ Position(db, resp.body[k]) = skip + k

\* does the request u supply a title, description or completed flag that
\* is not the one of r (a stored row, or the values a request loaded)?
ChangesValue(r, u) ==
    \/ u.title # None /\ u.title[1] # r.title
    \/ u.description # None /\ u.description # r.description
    \/ u.completed # None /\ u.completed[1] # r.completed

\* row new is row r but for the columns request u supplies and updated_at
Framed(r, new, u) ==
    /\ new.id = r.id
    /\ new.created_at = r.created_at
    /\ u.title = None => new.title = r.title
    /\ u.description = None => new.description = r.description
    /\ u.completed = None => new.completed = r.completed
    /\ u.priority = None => new.priority = r.priority
    /\ u.status = None => new.status = r.status

\* on table db the id task_id is gone: Get, Update and Delete of it answer
\* 404 and no List returns it
Gone(db, task_id) ==
    /\ task_id \notin Ids(db)
    /\ NotFound(get_task(db, task_id))
    /\ \A u \in TaskUpdate(mix) :
           NotFound(update_task(db, now, task_id, u).resp)
    /\ NotFound(delete_task(db, task_id).resp)
    /\ \A skip \in ValidSkips, limit \in ValidLimits,
          completed \in Opt(BOOLEAN) :
           task_id \notin BodyIds(get_tasks(db, skip, limit, completed).body)

(* -------------------------------- C1 ----------------------------------- *)

\* C1: Create succeeds for every title that is non-empty after trimming, and
\* the returned task echoes every supplied field (title, description,
\* priority, status), has an id no stored task has, completed = false and
\* created_at = updated_at; absent priority / status come back as Moderate /
\* Not Started.
C1_CreateEchoesSuppliedFields ==
    \A body \in CreateBodies(mix) :
        ~Blank(body.title) =>
            LET res == create_task(tasks, now, TaskCreate(body))
                row == res.resp.body[1]
            IN /\ res.resp.status = 200
               /\ Len(res.resp.body) = 1
               /\ row.title = body.title
               /\ row.description = body.description
               /\ row.priority = (IF body.priority = None THEN "Moderate"
                                  ELSE body.priority[1])
               /\ row.status = (IF body.status = None THEN "Not Started"
                                ELSE body.status[1])
               /\ row.id \notin Ids(tasks)
               /\ row.completed = FALSE
               /\ row.created_at = row.updated_at

(* -------------------------------- C2 ----------------------------------- *)

\* C2: no stored task ever has an empty or whitespace-only title, whatever
\* requests ran and however their steps interleaved; a Create whose title
\* trims to empty, and an Update of an existing id whose supplied title trims
\* to empty, fail with 400 "Title cannot be empty" and leave the whole table
\* as it was, whatever else the request supplies; no request that is still
\* to write carries such a title.
C2_TitleNeverBlank ==
    /\ \A r \in tasks : ~Blank(r.title)
    /\ \A body \in CreateBodies(mix) :
           Blank(body.title) =>
               LET res == create_task(tasks, now, TaskCreate(body))
               IN EmptyTitle(res.resp) /\ res.db = tasks
    /\ \A r \in tasks : \A u \in TaskUpdate(mix) :
           (u.title # None /\ Blank(u.title[1])) =>
               LET res == update_task(tasks, now, r.id, u)
               IN EmptyTitle(res.resp) /\ res.db = tasks
    /\ \A p \in HeldUpdates : p.u.title = None \/ ~Blank(p.u.title[1])

\* an updated task is stored, an Update of it that carries a blank title
\* together with another field is refused, and an Update of it with a title
\* is held before its commit
C2_Witness ==
    \E r \in tasks : \E u \in TaskUpdate(mix) : \E p \in HeldUpdates :
        /\ r.updated_at > r.created_at
        /\ u.title # None /\ Blank(u.title[1])
        /\ u.description # None \/ u.completed # None
        /\ update_task(tasks, now, r.id, u).resp.status = 400
        /\ p.id = r.id
        /\ p.u.title # None

(* -------------------------------- C3 ----------------------------------- *)

\* C3: for every skip >= 0, limit in 1..100 (5 is the default) and every
\* value of the completed argument (absent, true, false), List returns
\* exactly the elements skip .. skip+limit-1 of all incomplete tasks ordered
\* by created_at descending, then id descending: at most limit tasks, none
\* of them completed, and the empty sequence when nothing matches.
C3_ListIgnoresCompletedArgument ==
    \A skip \in ValidSkips, limit \in ValidLimits, completed \in Opt(BOOLEAN) :
        IsWindow(get_tasks(tasks, skip, limit, completed), tasks, skip, limit)

(* -------------------------------- C4 ----------------------------------- *)

\* C4: Get, Update and Delete of an id no stored task has answer 404 "Task
\* not found" and leave the table unchanged; for Update whatever the body
\* holds, a whitespace-only title included.  The lookup is the first step of
\* the handler, so such a request is never held.
C4_MissingIdIs404 ==
    \A task_id \in TaskIds \ Ids(tasks) :
        /\ NotFound(get_task(tasks, task_id))
        /\ \A u \in TaskUpdate(mix) :
               /\ LET res == update_task(tasks, now, task_id, u)
                  IN NotFound(res.resp) /\ res.db = tasks
               /\ LET selected == update_select(tasks, task_id, u)
                  IN selected.error # None /\ NotFound(selected.error[1])
        /\ LET res == delete_task(tasks, task_id)
           IN NotFound(res.resp) /\ res.db = tasks

\* a task was deleted, another is still stored, and an Update of the deleted
\* id with a blank title is answered 404
C4_Witness ==
    \E r \in tasks : \E task_id \in TaskIds \ Ids(tasks) :
        \E u \in TaskUpdate(mix) :
            /\ task_id < r.id
            /\ u.title # None /\ Blank(u.title[1])
            /\ update_task(tasks, now, task_id, u).resp.status = 404

(* -------------------------------- C5 ----------------------------------- *)

\* C5: a successful Update changes only the fields the request supplies:
\* each of title, description, completed, priority, status that is absent
\* keeps its value, id and created_at keep theirs, and every other row is
\* unchanged.  This holds of an Update that runs whole (whose response is
\* then the stored row) and of the write of an Update that was held since
\* its SELECT, whatever other requests did to the table in between.
C5_UpdateFrame ==
    /\ \A r \in tasks : \A u \in TaskUpdate(mix) :
           LET res == update_task(tasks, now, r.id, u)
           IN res.resp.status = 200 =>
               LET new == res.resp.body[1]
               IN /\ new \in res.db
                  /\ res.db \ {new} = tasks \ {r}
                  /\ Framed(r, new, u)
    /\ \A p \in HeldUpdates :
           LET res == resume(tasks, now, p)
           IN /\ Ids(res.db) = Ids(tasks)
              /\ \A r \in tasks :
                     IF r.id = p.id
                     THEN Framed(r, Row(res.db, r.id), p.u)
                     ELSE r \in res.db

\* an Update that supplies only a title, another than the one it read, is
\* held since its SELECT; meanwhile another request gave its task a
\* description, and another task is stored; its write stores the new title
\* at the current time and keeps that description
C5_Witness ==
    \E r \in tasks, q \in tasks : \E p \in HeldUpdates :
        /\ p.id = r.id
        /\ q.id # r.id
        /\ p.u.title # None /\ p.u.description = None
        /\ p.u.title[1] # p.loaded[1].title
        /\ p.u.title[1] # r.title
        /\ r.description # None
        /\ p.loaded[1].description = None
        /\ r.updated_at < now
        /\ resume(tasks, now, p).resp = None
        /\ Row(resume(tasks, now, p).db, r.id) =
               [r EXCEPT !.title = p.u.title[1], !.updated_at = now]

(* -------------------------------- C6 ----------------------------------- *)

\* C6: an Update of an existing task that supplies status = s' succeeds and
\* the stored and returned status is s' afterwards, whatever it was before.
C6_UpdateSetsStatus ==
    \A r \in tasks : \A u \in TaskUpdate(mix) :
        (u.status # None /\ (u.title = None \/ ~Blank(u.title[1]))) =>
            LET res == update_task(tasks, now, r.id, u)
            IN /\ res.resp.status = 200
               /\ res.resp.body[1].status = u.status[1]
               /\ Row(res.db, r.id).status = u.status[1]

(* -------------------------------- C7 ----------------------------------- *)

\* C7 as claimed: every successful Update sets updated_at to the current
\* time, also when no value changes.
C7_UpdateAlwaysRefreshes ==
    \A r \in tasks : \A u \in TaskUpdate(mix) :
        LET res == update_task(tasks, now, r.id, u)
        IN res.resp.status = 200 => res.resp.body[1].updated_at = now

\* C7 as amended: a successful Update sets updated_at to the time of its
\* write when it supplies a title, description or completed value that
\* differs from the value it read for the task (the stored value when no
\* other request writes in between); when it supplies no field, or only
\* values equal to the ones it read, it writes nothing and the whole table
\* stays as it was.
C7_UpdateRefreshesOnChange ==
    /\ \A r \in tasks : \A u \in TaskUpdate(mix) :
           LET res == update_task(tasks, now, r.id, u)
           IN res.resp.status = 200 =>
                  IF ChangesValue(r, u)
                  THEN Row(res.db, r.id).updated_at = now
                  ELSE res.db = tasks
    /\ \A p \in HeldUpdates :
           LET res == resume(tasks, now, p)
           IN IF ChangesValue(p.loaded[1], p.u)
              THEN res.resp = None => Row(res.db, p.id).updated_at = now
              ELSE res.resp = None /\ res.db = tasks

\* a task last written before the current time keeps its updated_at under
\* the empty Update, while a held Update that read another title than it
\* supplies sets updated_at to the current time although the stored title
\* is by now the supplied one
C7_Witness ==
    \E r \in tasks : \E p \in HeldUpdates :
        /\ p.id = r.id
        /\ r.updated_at < now
        /\ update_task(tasks, now, r.id, NoFields).resp.body[1].updated_at
               = r.updated_at
        /\ ChangesValue(p.loaded[1], p.u)
        /\ ~ChangesValue(r, p.u)
        /\ resume(tasks, now, p).resp = None
        /\ Row(resume(tasks, now, p).db, r.id).updated_at = now

(* -------------------------------- C8 ----------------------------------- *)

\* every List call omits the task task_id of table db
ListOmits(db, task_id) ==
    \A skip \in ValidSkips, limit \in ValidLimits, completed \in Opt(BOOLEAN) :
        task_id \notin BodyIds(get_tasks(db, skip, limit, completed).body)

\* in every state: an Update with completed = true that runs whole and
\* succeeds stores the flag and returns it; one that was held since its
\* SELECT either read completed = true or stores it with its write; and
\* every stored completed task is omitted by every List and returned by Get
\* with completed = true
C8_CompletedHidden ==
    /\ \A r \in tasks : \A u \in TaskUpdate(mix) :
           LET res == update_task(tasks, now, r.id, u)
           IN (u.completed = Some(TRUE) /\ res.resp.status = 200) =>
                  /\ res.resp.body[1].completed = TRUE
                  /\ Row(res.db, r.id).completed = TRUE
    /\ \A p \in HeldUpdates :
           LET res == resume(tasks, now, p)
           IN (p.u.completed = Some(TRUE) /\ res.resp = None) =>
                  \/ p.loaded[1].completed = TRUE
                  \/ Row(res.db, p.id).completed = TRUE
    /\ \A r \in tasks :
           r.completed = TRUE =>
               /\ ListOmits(tasks, r.id)
               /\ get_task(tasks, r.id) = Ok(<<r>>)

\* in every step: a completed task stays stored and completed unless the step
\* is the DELETE of a Delete of it, or the write of an Update of it that
\* supplies completed = false
C8_StaysCompleted ==
    \A r \in tasks :
        r.completed = TRUE =>
            \/ \E q \in tasks' : q.id = r.id /\ q.completed = TRUE
            \/ tasks' = delete_commit(tasks, r.id)
            \/ \E u \in TaskUpdate(mix) :
                   /\ u.completed = Some(FALSE)
                   /\ tasks' = update_task(tasks, now, r.id, u).db
            \/ \E p \in HeldUpdates :
                   /\ p.id = r.id
                   /\ p.u.completed = Some(FALSE)
                   /\ tasks' = resume(tasks, now, p).db

\* C8: once an Update with completed = true has taken effect, every later
\* List (any skip, limit, completed argument) omits the task for as long as
\* no Update sets completed back to false, and Get still returns it with
\* completed = true until it is deleted.
C8_CompletedStaysHidden == []C8_CompletedHidden /\ [][C8_StaysCompleted]_vars

\* a task completed by an Update (updated after its creation) next to an
\* incomplete one that List still returns, while an Update of the completed
\* task with completed = true is held
C8_Witness ==
    \E r \in tasks, q \in tasks : \E p \in HeldUpdates :
        /\ r.completed = TRUE
        /\ r.updated_at > r.created_at
        /\ get_task(tasks, r.id).body[1].completed = TRUE
        /\ get_tasks(tasks, 0, 5, Some(TRUE)).body = <<>>
        /\ get_tasks(tasks, 0, 5, None).body = <<q>>
        /\ p.id = r.id
        /\ p.u.completed = Some(TRUE)

(* -------------------------------- C9 ----------------------------------- *)

\* C9: a successful Delete removes exactly the row of that id and no other;
\* on the table it leaves, Get, Update and Delete of that id answer 404 and
\* no List returns it.  This holds of a Delete that runs whole and of the
\* DELETE of one that was held since its SELECT, which answers 200 also when
\* another request removed the row in between.
C9_DeleteRemovesRow ==
    /\ \A r \in tasks :
           LET res == delete_task(tasks, r.id)
           IN /\ res.resp.status = 200
              /\ res.db = tasks \ {r}
              /\ Gone(res.db, r.id)
    /\ \A p \in HeldDeletes :
           LET res == resume(tasks, now, p)
           IN /\ res.resp = Some(Deleted)
              /\ res.db = {r \in tasks : r.id # p.id}
              /\ Gone(res.db, p.id)

\* a Delete is held since its SELECT and another Delete has removed its row;
\* a task with a larger id is still stored and listed
C9_Witness ==
    \E r \in tasks : \E p \in HeldDeletes :
        /\ p.id < r.id
        /\ p.id \notin Ids(tasks)
        /\ get_task(tasks, p.id).status = 404
        /\ r.id \in BodyIds(get_tasks(tasks, 0, 5, None).body)

(* -------------------------------- C10 ---------------------------------- *)

\* in every state: created_at <= updated_at, and no two rows share an id
C10_RowsWellFormed ==
    /\ \A r \in tasks : r.created_at <= r.updated_at
    /\ \A r \in tasks, q \in tasks : r.id = q.id => r = q

\* in every step: a row that stays keeps its id and its created_at; a step
\* adds at most one row, and only under an id that was free
C10_IdentityStable ==
    /\ \A r \in tasks, q \in tasks' : r.id = q.id => q.created_at = r.created_at
    /\ Cardinality(tasks') = Cardinality(tasks) => Ids(tasks') = Ids(tasks)
    /\ Cardinality(tasks') < Cardinality(tasks) => Ids(tasks') \subseteq Ids(tasks)
    /\ Cardinality(tasks') > Cardinality(tasks) =>
           /\ Ids(tasks) \subseteq Ids(tasks')
           /\ Cardinality(Ids(tasks')) = Cardinality(Ids(tasks)) + 1

\* C10: in every reachable state every stored task has created_at <=
\* updated_at and no two stored tasks share an id, and no operation changes
\* the id or the created_at of a task that stays in the store.
C10_Invariants == []C10_RowsWellFormed /\ [][C10_IdentityStable]_vars

\* two rows created at different times, the older one written at a later
\* time by an Update that was held since its SELECT
C10_Witness ==
    \E r \in tasks, q \in tasks :
        /\ r.id # q.id
        /\ r.created_at < q.created_at
        /\ r.updated_at > r.created_at
        /\ \E p \in Held : p.op = "update" /\ p.pc = "refresh" /\ p.id = r.id

====
